---------------------------- MODULE Spec2Model ----------------------------
(***************************************************************************)
(* A model of the Keccak-f arithmetization in keccak256/src: the gates     *)
(* registered by the configs (as polynomial identities over witness rows)  *)
(* and the witness assignment performed by their assign functions.         *)
(*                                                                         *)
(* Field elements are modelled as integers.  Every value that occurs is    *)
(* far below the modulus of the scalar field (about 2^254), so an identity *)
(* evaluates to zero in the field exactly when it is zero over the         *)
(* integers.  Lanes are modelled with LaneBits digits instead of 64, as in *)
(* the reduced-width members of the Keccak-f family (round constants are   *)
(* truncated to the lane width).                                           *)
(***************************************************************************)
EXTENDS Integers, Sequences, FiniteSets, TLC

VARIABLES
    flagw,      \* MixingConfig flag column under the "Ensure flag consistency" gate
    absorb,     \* AbsorbConfig region: rows prev / cur / next of the state columns
    mixing,     \* MixingConfig::assign_state
    keccak,     \* KeccakFConfig::assign_all
    blockcount, \* BlockCountAccConfig rows and BlockCountFinalConfig check
    pi,         \* PiConfig::assign_region
    rholane,    \* LaneRotateConversionConfig region of one lane
    runsum,     \* SumConfig running-sum region
    baseconv    \* base-9 to base-13 conversion of a state and the check after it

vars == <<flagw, absorb, mixing, keccak, blockcount, pi, rholane, runsum, baseconv>>

---------------------------------------------------------------------------
(* Program constants *)

NumLanes == 25
ABSORB_NEXT_INPUTS == 17
A4 == 2
PERMUTATION == 24
\* low 16 bits of ROUND_CONSTANTS[23] = 0x8000000080008008
ROUND_CONSTANT_LAST == 32776
B9 == 9
B13 == 13

(* Bounds of the model *)

LaneBits == 4          \* digits per lane (64 in the program)
MaxLaneVal == 3        \* largest base-2 lane value drawn as an input
MaxFlagVal == 9        \* largest field value a prover places in a flag cell

Lanes == 0 .. (NumLanes - 1)
RateLanes == 0 .. (ABSORB_NEXT_INPUTS - 1)
LaneVals == 0 .. MaxLaneVal
FlagVals == 0 .. MaxFlagVal
\* lanes at which the drawn states differ from the all-zero state
ProbeLanes == {0, 1, 15, 16, 17, 24}
ProbeRate == {0, 15, 16}

RECURSIVE Pow(_, _)
Pow(b, e) == IF e = 0 THEN 1 ELSE b * Pow(b, e - 1)

\* a round constant reduced to the modelled lane width
Trunc(rc) == rc % Pow(2, LaneBits)

ZeroState == [i \in Lanes |-> 0]
Single(i, v) == [ZeroState EXCEPT ![i] = v]
ZeroNext == [i \in RateLanes |-> 0]
SingleNext(i, v) == [ZeroNext EXCEPT ![i] = v]

\* F::from(b as u64)
BoolToF(b) == IF b THEN 1 ELSE 0

---------------------------------------------------------------------------
(* arith_helpers: conversions between numeral bases *)

RECURSIVE convert_b2_to_b9(_)
convert_b2_to_b9(x) ==
    IF x = 0 THEN 0 ELSE (x % 2) + B9 * convert_b2_to_b9(x \div 2)

RECURSIVE convert_b2_to_b13(_)
convert_b2_to_b13(x) ==
    IF x = 0 THEN 0 ELSE (x % 2) + B13 * convert_b2_to_b13(x \div 2)

\* a base-9 coefficient 2a + b + 3c + 2d to the bit a ^ (~b & c) ^ d
convert_b9_coef(d) == <<0, 0, 1, 1, 0, 0, 1, 1, 0>>[d + 1]

RECURSIVE convert_b9_lane_to_b13_mut_wide(_)
convert_b9_lane_to_b13_mut_wide(x) ==
    IF x = 0 THEN 0
    ELSE convert_b9_coef(x % B9) + B13 * B13 * convert_b9_lane_to_b13_mut_wide(x \div B9)

RECURSIVE convert_b9_lane_to_b13(_)
convert_b9_lane_to_b13(x) ==
    IF x = 0 THEN 0
    ELSE convert_b9_coef(x % B9) + B13 * convert_b9_lane_to_b13(x \div B9)

---------------------------------------------------------------------------
(* MixingConfig: gate "Ensure flag consistency" *)

\* the single polynomial of the gate, without the selector
flag_consistency_poly(flag, negated_flag) ==
    LET flag_consistency == (flag + negated_flag) - 1
        bool_constraint(f) == (1 - f) * f
    IN  flag_consistency + bool_constraint(flag) + bool_constraint(negated_flag)

\* q_flag * poly = 0
flag_consistency_gate(q_flag, flag, negated_flag) ==
    BoolToF(q_flag) * flag_consistency_poly(flag, negated_flag) = 0

FlagInit ==
    flagw = [pc |-> "witness", q_flag |-> FALSE, cells |-> <<0, 0>>, ok |-> FALSE]

\* the region "Flag and Negated flag assignation": q_flag at offset 0, the flag
\* at offset 0 and the negated flag at offset 1 of the flag column; the two
\* cell values are whatever the prover places there
witness_flag_region ==
    /\ flagw.pc = "witness"
    /\ \E f \in FlagVals, n \in FlagVals :
          flagw' = [flagw EXCEPT !.pc = "verify", !.q_flag = TRUE,
                                 !.cells = <<f, n>>]
    /\ UNCHANGED <<absorb, mixing, keccak, blockcount, pi, rholane, runsum, baseconv>>

verify_flag_gate ==
    /\ flagw.pc = "verify"
    /\ flagw' = [flagw EXCEPT !.pc = "done",
                   !.ok = flag_consistency_gate(flagw.q_flag, flagw.cells[1],
                                                flagw.cells[2])]
    /\ UNCHANGED <<absorb, mixing, keccak, blockcount, pi, rholane, runsum, baseconv>>

---------------------------------------------------------------------------
(* AbsorbConfig *)

\* KeccakFArith::absorb: state[x][y] += 2 * next_input[x][y], the next input
\* converted from base 2 to base 9; lanes outside the rate are untouched
KeccakFArith_absorb(a, next_input) ==
    [i \in Lanes |->
        IF i \in RateLanes THEN a[i] + A4 * convert_b2_to_b9(next_input[i])
        ELSE a[i]]

\* The loop of assign_next_inp_and_flag walks (x, y) in row-major order and
\* leaves at the first pair with x >= 3 and y >= 1: lane 5x+y is converted
\* when no pair up to and including it met that condition.
next_inp_converted(idx) ==
    \A j \in 0 .. idx : ~((j \div 5) >= 3 /\ (j % 5) >= 1)

\* the row written by assign_next_inp_and_flag: the 17 next-input lanes and,
\* in column ABSORB_NEXT_INPUTS, the flag; the other columns stay unassigned
assign_next_inp_and_flag(flag, next_input) ==
    [i \in Lanes |->
        IF i \in RateLanes
        THEN IF next_inp_converted(i) THEN convert_b2_to_b9(next_input[i])
             ELSE next_input[i]
        ELSE IF i = ABSORB_NEXT_INPUTS THEN flag ELSE 0]

\* gate "absorb" evaluated on the row where q_mixing may be enabled
absorb_gate_mut_range(q_mixing, prev, cur, next) ==
    LET q_enable == BoolToF(q_mixing) * cur[ABSORB_NEXT_INPUTS]
    IN  \A idx \in 0 .. (ABSORB_NEXT_INPUTS - 2) :
            q_enable * ((prev[idx] + A4 * cur[idx]) - next[idx]) = 0

absorb_gate_mut_noflag(q_mixing, prev, cur, next) ==
    LET q_enable == BoolToF(q_mixing)
    IN  \A idx \in 0 .. (ABSORB_NEXT_INPUTS - 1) :
            q_enable * ((prev[idx] + A4 * cur[idx]) - next[idx]) = 0

absorb_gate(q_mixing, prev, cur, next) ==
    LET q_enable == BoolToF(q_mixing) * cur[ABSORB_NEXT_INPUTS]
    IN  \A idx \in 0 .. (ABSORB_NEXT_INPUTS - 1) :
            q_enable * ((prev[idx] + A4 * cur[idx]) - next[idx]) = 0

\* states in base 9 with at most one non-zero lane, as IotaB9 leaves them
InStatesB9 == {Single(i, convert_b2_to_b9(v)) : i \in ProbeLanes, v \in LaneVals}
\* next inputs in base 2 with at most one non-zero lane
NextInputs == {SingleNext(i, v) : i \in ProbeRate, v \in LaneVals}
\* a state claimed in place of s: s itself or s changed in one lane
Perturbed(s) == {[s EXCEPT ![j] = s[j] + 1] : j \in ProbeLanes}

AbsorbInit ==
    \E in_state \in InStatesB9, next_input \in NextInputs, is_mixing \in BOOLEAN :
      \E out_state \in {KeccakFArith_absorb(in_state, next_input), in_state}
                       \cup Perturbed(KeccakFArith_absorb(in_state, next_input)) :
        absorb = [pc |-> "assign", in_state |-> in_state, out_state |-> out_state,
                  next_input |-> next_input, flag |-> BoolToF(is_mixing),
                  q_mixing |-> FALSE,
                  prev |-> ZeroState, cur |-> ZeroState, next |-> ZeroState,
                  ok |-> FALSE]

\* region "Absorb state assignations": in_state at offset 0, q_mixing, the
\* next inputs and the flag at offset 1, out_state at offset 2
copy_state_flag_next_inputs ==
    /\ absorb.pc = "assign"
    /\ absorb' = [absorb EXCEPT
            !.pc = "verify",
            !.prev = absorb.in_state,
            !.q_mixing = TRUE,
            !.cur = assign_next_inp_and_flag(absorb.flag, absorb.next_input),
            !.next = absorb.out_state]
    /\ UNCHANGED <<flagw, mixing, keccak, blockcount, pi, rholane, runsum, baseconv>>

verify_absorb_gate ==
    /\ absorb.pc = "verify"
    /\ absorb' = [absorb EXCEPT
            !.pc = "done",
            !.ok = absorb_gate(absorb.q_mixing, absorb.prev, absorb.cur,
                               absorb.next)]
    /\ UNCHANGED <<flagw, mixing, keccak, blockcount, pi, rholane, runsum, baseconv>>

---------------------------------------------------------------------------
(* MixingConfig::assign_state *)

\* KeccakFArith::iota_b9: the round constant, in base 9 with weight A4, is
\* added to lane (0,0)
KeccakFArith_iota_b9(a, rc) ==
    [a EXCEPT ![0] = a[0] + A4 * convert_b2_to_b9(Trunc(rc))]

\* KeccakFArith::iota_b13: the round constant in base 13 is added to lane (0,0)
KeccakFArith_iota_b13(a, rc) ==
    [a EXCEPT ![0] = a[0] + convert_b2_to_b13(Trunc(rc))]

\* the off-circuit value StateBaseConversion witnesses for a base-9 state
state_base_conversion(a) == [i \in Lanes |-> convert_b9_lane_to_b13(a[i])]

\* Option<[F; ABSORB_NEXT_INPUTS]>
None == [some |-> FALSE, val |-> ZeroNext]
Some(v) == [some |-> TRUE, val |-> v]
\* next_mixing.unwrap_or_default()
unwrap_or_default(opt) == IF opt.some THEN opt.val ELSE ZeroNext

\* KeccakFArith::mixing: Absorb, base conversion and Iota base 13 when a next
\* input is given, Iota base 9 otherwise
KeccakFArith_mixing(a, next_input, rc) ==
    IF next_input.some
    THEN KeccakFArith_iota_b13(
             state_base_conversion(KeccakFArith_absorb(a, next_input.val)), rc)
    ELSE KeccakFArith_iota_b9(a, rc)

\* IotaB9Config, gate of the final round: enabled by 1 - flag, lane (0,0) only
iota_b9_last_round_gate(flag, in_state, out_state) ==
    (1 - flag) * ((in_state[0]
                   + A4 * convert_b2_to_b9(Trunc(ROUND_CONSTANT_LAST)))
                  - out_state[0]) = 0

\* StateBaseConversion, enabled by the flag
base_conversion_check(flag, in_state, out_state) ==
    \A i \in Lanes :
        flag * (convert_b9_lane_to_b13(in_state[i]) - out_state[i]) = 0

\* IotaB13Config gate: enabled by the flag, lane (0,0) only
iota_b13_gate(flag, in_state, out_state) ==
    flag * ((in_state[0] + convert_b2_to_b13(Trunc(ROUND_CONSTANT_LAST)))
            - out_state[0]) = 0

\* gate "Mixing result copies and constraints": out_mixing[0] at the current
\* row (non-mixing branch) and the next row (mixing branch), state[0] at the
\* current row
mixing_result_gate(q_out_copy, flag, negated_flag, out_non_mixing, out_mixing, out_state) ==
    LET left_side == out_non_mixing[0] * negated_flag
        right_side == out_mixing[0] * flag
    IN  BoolToF(q_out_copy) * ((left_side + right_side) - out_state[0]) = 0

\* the states a caller may claim as the result: either branch, the unchanged
\* input, or a branch changed in one lane
OutClaims(in_state, next_mixing) ==
    LET m == KeccakFArith_mixing(in_state, Some(unwrap_or_default(next_mixing)),
                                 ROUND_CONSTANT_LAST)
        n == KeccakFArith_mixing(in_state, None, ROUND_CONSTANT_LAST)
    IN  {m, n, in_state} \cup Perturbed(m) \cup Perturbed(n)

MixingInit ==
    \E in_state \in InStatesB9, flag_bool \in BOOLEAN,
       next_mixing \in {None} \cup {Some(v) : v \in NextInputs} :
      \E out_state \in OutClaims(in_state, next_mixing) :
        mixing = [pc |-> "flag", in_state |-> in_state, out_state |-> out_state,
                  flag_bool |-> flag_bool, next_mixing |-> next_mixing,
                  flag |-> 0, negated_flag |-> 0,
                  non_mix_res |-> ZeroState,
                  absorb_cur |-> ZeroState, absorb_out |-> ZeroState,
                  base_conv |-> ZeroState, mix_res |-> ZeroState,
                  out_rows |-> <<ZeroState, ZeroState>>, state_row |-> ZeroState,
                  regions |-> <<>>, failed |-> {}]

\* enforce_flag_consistency: both cells come from flag_bool
enforce_flag_consistency ==
    /\ mixing.pc = "flag"
    /\ mixing' = [mixing EXCEPT
            !.pc = "iota_b9",
            !.flag = BoolToF(mixing.flag_bool),
            !.negated_flag = BoolToF(~mixing.flag_bool),
            !.regions = Append(@, "flag")]
    /\ UNCHANGED <<flagw, absorb, keccak, blockcount, pi, rholane, runsum, baseconv>>

\* non_mix_res: IotaB9 of the last round
iota_b9_last_round ==
    /\ mixing.pc = "iota_b9"
    /\ mixing' = [mixing EXCEPT
            !.pc = "absorb",
            !.non_mix_res = KeccakFArith_iota_b9(mixing.in_state,
                                                 ROUND_CONSTANT_LAST),
            !.regions = Append(@, "iota_b9")]
    /\ UNCHANGED <<flagw, absorb, keccak, blockcount, pi, rholane, runsum, baseconv>>

mixing_absorb_mut_only_when_mixing ==
    /\ mixing.pc = "absorb"
    /\ mixing' = [mixing EXCEPT
            !.pc = "base_conv",
            !.absorb_cur = assign_next_inp_and_flag(
                               mixing.flag, unwrap_or_default(mixing.next_mixing)),
            !.absorb_out = KeccakFArith_absorb(
                               mixing.in_state, unwrap_or_default(mixing.next_mixing)),
            !.regions = IF mixing.flag_bool THEN Append(@, "absorb") ELSE @]
    /\ UNCHANGED <<flagw, absorb, keccak, blockcount, pi, rholane, runsum, baseconv>>

\* absorb_config.copy_state_flag_next_inputs with the off-circuit absorb result
mixing_absorb ==
    /\ mixing.pc = "absorb"
    /\ mixing' = [mixing EXCEPT
            !.pc = "base_conv",
            !.absorb_cur = assign_next_inp_and_flag(
                               mixing.flag, unwrap_or_default(mixing.next_mixing)),
            !.absorb_out = KeccakFArith_absorb(
                               mixing.in_state, unwrap_or_default(mixing.next_mixing)),
            !.regions = Append(@, "absorb")]
    /\ UNCHANGED <<flagw, absorb, keccak, blockcount, pi, rholane, runsum, baseconv>>

mixing_base_conv ==
    /\ mixing.pc = "base_conv"
    /\ mixing' = [mixing EXCEPT
            !.pc = "iota_b13",
            !.base_conv = state_base_conversion(mixing.absorb_out),
            !.regions = Append(@, "base_conv")]
    /\ UNCHANGED <<flagw, absorb, keccak, blockcount, pi, rholane, runsum, baseconv>>

\* mix_res: IotaB13 of the converted state
mixing_iota_b13 ==
    /\ mixing.pc = "iota_b13"
    /\ mixing' = [mixing EXCEPT
            !.pc = "out",
            !.mix_res = KeccakFArith_iota_b13(mixing.base_conv,
                                              ROUND_CONSTANT_LAST),
            !.regions = Append(@, "iota_b13")]
    /\ UNCHANGED <<flagw, absorb, keccak, blockcount, pi, rholane, runsum, baseconv>>

\* assign_out_mixing_states: the branch results are copied to rows 0 and 1 of
\* out_mixing, the claimed out_state is witnessed in row 0 of the state columns
assign_out_mixing_states ==
    /\ mixing.pc = "out"
    /\ mixing' = [mixing EXCEPT
            !.pc = "verify",
            !.out_rows = <<mixing.non_mix_res, mixing.mix_res>>,
            !.state_row = mixing.out_state,
            !.regions = Append(@, "out")]
    /\ UNCHANGED <<flagw, absorb, keccak, blockcount, pi, rholane, runsum, baseconv>>

\* the gates of MixingConfig and of its sub-configs that the witness violates
mixing_failed_gates(m) ==
    {g \in {"flag", "iota_b9", "absorb", "base_conv", "iota_b13", "out"} :
        \/ g = "flag" /\ ~flag_consistency_gate(TRUE, m.flag, m.negated_flag)
        \/ g = "iota_b9" /\ ~iota_b9_last_round_gate(m.flag, m.in_state, m.non_mix_res)
        \/ g = "absorb" /\ ~absorb_gate(TRUE, m.in_state, m.absorb_cur, m.absorb_out)
        \/ g = "base_conv" /\ ~base_conversion_check(m.flag, m.absorb_out, m.base_conv)
        \/ g = "iota_b13" /\ ~iota_b13_gate(m.flag, m.base_conv, m.mix_res)
        \/ g = "out" /\ ~mixing_result_gate(TRUE, m.flag, m.negated_flag,
                                            m.out_rows[1], m.out_rows[2], m.state_row)}

verify_mixing ==
    /\ mixing.pc = "verify"
    /\ mixing' = [mixing EXCEPT !.pc = "done", !.failed = mixing_failed_gates(mixing)]
    /\ UNCHANGED <<flagw, absorb, keccak, blockcount, pi, rholane, runsum, baseconv>>

MixingAccepted == mixing.pc = "done" /\ mixing.failed = {}

---------------------------------------------------------------------------
(* KeccakFConfig::assign_all *)

\* every cell MixingConfig::assign_state witnesses, as a function of its
\* arguments; the cells it returns are those of state_row
mixing_assign_state(in_state, out_state, flag_bool, next_mixing) ==
    LET flag == BoolToF(flag_bool)
        next_input == unwrap_or_default(next_mixing)
        absorb_out == KeccakFArith_absorb(in_state, next_input)
        base_conv == state_base_conversion(absorb_out)
        non_mix_res == KeccakFArith_iota_b9(in_state, ROUND_CONSTANT_LAST)
        mix_res == KeccakFArith_iota_b13(base_conv, ROUND_CONSTANT_LAST)
    IN  [in_state |-> in_state, out_state |-> out_state,
         flag |-> flag, negated_flag |-> BoolToF(~flag_bool),
         non_mix_res |-> non_mix_res,
         absorb_cur |-> assign_next_inp_and_flag(flag, next_input),
         absorb_out |-> absorb_out, base_conv |-> base_conv, mix_res |-> mix_res,
         out_rows |-> <<non_mix_res, mix_res>>, state_row |-> out_state]

\* the expected final state assign_all computes off-circuit and hands to
\* Mixing as its out_state: the third argument of KeccakFArith::mixing is
\* PERMUTATION - 1 converted to u64
assign_all_mix_res(state, next_mixing) ==
    KeccakFArith_mixing(state, next_mixing, PERMUTATION - 1)

\* gate "Constraint out_state correctness": one identity per state column
out_state_gate_mut_lane0(q_out, row_cur, row_next) ==
    BoolToF(q_out) * (row_cur[0] - row_next[0]) = 0

out_state_gate(q_out, row_cur, row_next) ==
    \A idx \in 0 .. (NumLanes - 1) :
        BoolToF(q_out) * (row_cur[idx] - row_next[idx]) = 0

\* states in base 13 with at most one non-zero lane, as the base conversion
\* that ends a round leaves them
LoopOutStates == {ZeroState, Single(0, convert_b2_to_b13(1)),
                  Single(24, convert_b2_to_b13(MaxLaneVal))}
KeccakNextInputs == {None, Some(SingleNext(0, 2)), Some(SingleNext(1, MaxLaneVal))}

\* The lanes of the state cells are followed through the 23 rounds as the
\* list of sub-steps applied to in_state (the arithmetic of Theta, Rho, Xi,
\* Iota and the base conversion lies outside this directory); loop_out holds
\* the values those cells have when the loop is left.
KeccakInit ==
    \E loop_out \in LoopOutStates, flag \in BOOLEAN, next_mixing \in KeccakNextInputs :
      \E out_state \in
            {assign_all_mix_res(loop_out, next_mixing),
             KeccakFArith_mixing(loop_out, next_mixing, ROUND_CONSTANT_LAST)}
            \cup Perturbed(assign_all_mix_res(loop_out, next_mixing)) :
        keccak = [pc |-> "theta", round |-> 0, ops |-> <<>>,
                  loop_out |-> loop_out, out_state |-> out_state,
                  flag |-> flag, next_mixing |-> next_mixing,
                  mix_res |-> ZeroState,
                  mix |-> mixing_assign_state(ZeroState, ZeroState, FALSE, None),
                  q_out |-> FALSE, rows |-> <<ZeroState, ZeroState>>,
                  failed |-> {}]

InLoop(step) == keccak.pc = step /\ keccak.round < PERMUTATION - 1

\* the record of one assignment: `from` is the position in ops of the step
\* whose cells the variable `state` holds when the step is called (0 for
\* in_state), arg the round index, flag or row number handed to the step
StepRecord(step, arg) ==
    [op |-> step, round |-> keccak.round, from |-> Len(keccak.ops), arg |-> arg]

LoopStep_mut_in_state(step, next_pc) ==
    keccak' = [keccak EXCEPT
        !.pc = next_pc,
        !.ops = Append(@, [StepRecord(step, 0) EXCEPT !.from = 0])]

\* one sub-step of a round, state = step(state): the state cells are
\* replaced by the step's output
LoopStep(step, next_pc) ==
    keccak' = [keccak EXCEPT
        !.pc = next_pc,
        !.ops = Append(@, StepRecord(step, 0))]

assign_all_theta ==
    /\ InLoop("theta")
    /\ LoopStep("theta", "rho")
    /\ UNCHANGED <<flagw, absorb, mixing, blockcount, pi, rholane, runsum, baseconv>>

assign_all_rho ==
    /\ InLoop("rho")
    /\ LoopStep("rho", "pi")
    /\ UNCHANGED <<flagw, absorb, mixing, blockcount, pi, rholane, runsum, baseconv>>

assign_all_pi ==
    /\ InLoop("pi")
    /\ LoopStep("pi", "xi")
    /\ UNCHANGED <<flagw, absorb, mixing, blockcount, pi, rholane, runsum, baseconv>>

assign_all_xi ==
    /\ InLoop("xi")
    /\ LoopStep("xi", "iota_b9")
    /\ UNCHANGED <<flagw, absorb, mixing, blockcount, pi, rholane, runsum, baseconv>>

\* iota_b9_config.not_last_round with ROUND_CONSTANTS[round]
assign_all_iota_b9 ==
    /\ InLoop("iota_b9")
    /\ keccak' = [keccak EXCEPT
            !.pc = "base_conv",
            !.ops = Append(@, StepRecord("iota_b9", keccak.round))]
    /\ UNCHANGED <<flagw, absorb, mixing, blockcount, pi, rholane, runsum, baseconv>>

\* the base conversion, called with an activation flag cell holding
\* F::one(), ends the round; the loop runs for round in 0 .. PERMUTATION - 2
assign_all_base_conv ==
    /\ InLoop("base_conv")
    /\ keccak' = [keccak EXCEPT
            !.pc = IF keccak.round + 1 < PERMUTATION - 1 THEN "theta" ELSE "mixing",
            !.round = keccak.round + 1,
            !.ops = Append(@, StepRecord("base_conv", 1))]
    /\ UNCHANGED <<flagw, absorb, mixing, blockcount, pi, rholane, runsum, baseconv>>

\* "Mixing step": the off-circuit mix_res is the out_state given to
\* mixing_config.assign_state, absolute_row is PERMUTATION - 1
assign_all_mixing ==
    /\ keccak.pc = "mixing"
    /\ LET res == assign_all_mix_res(keccak.loop_out, keccak.next_mixing)
       IN  keccak' = [keccak EXCEPT
                !.pc = "constrain_out",
                !.mix_res = res,
                !.mix = mixing_assign_state(keccak.loop_out, res, keccak.flag,
                                            keccak.next_mixing),
                !.ops = Append(@, [StepRecord("mixing", PERMUTATION - 1)
                                   EXCEPT !.round = PERMUTATION - 1])]
    /\ UNCHANGED <<flagw, absorb, mixing, blockcount, pi, rholane, runsum, baseconv>>

\* constrain_out_state: q_out at offset 0, the cells returned by Mixing copied
\* to offset 0 and the claimed out_state witnessed at offset 1
constrain_out_state ==
    /\ keccak.pc = "constrain_out"
    /\ keccak' = [keccak EXCEPT
            !.pc = "verify",
            !.q_out = TRUE,
            !.rows = <<keccak.mix.state_row, keccak.out_state>>]
    /\ UNCHANGED <<flagw, absorb, mixing, blockcount, pi, rholane, runsum, baseconv>>

verify_keccak ==
    /\ keccak.pc = "verify"
    /\ keccak' = [keccak EXCEPT
            !.pc = "done",
            !.failed = mixing_failed_gates(keccak.mix)
                       \cup (IF out_state_gate(keccak.q_out, keccak.rows[1],
                                               keccak.rows[2])
                             THEN {} ELSE {"out_state"})]
    /\ UNCHANGED <<flagw, absorb, mixing, blockcount, pi, rholane, runsum, baseconv>>

\* how many times a sub-step was applied to the state
Applied(step) == Cardinality({i \in DOMAIN keccak.ops : keccak.ops[i].op = step})

---------------------------------------------------------------------------
\* Rho overflow checks: BlockCountAccConfig and BlockCountFinalConfig

\* block counts for 1, 2, 3 and 4 non-zero digits of a chunk
OVERFLOW_TRANSFORM == <<0, 1, 13, 170>>

STEP2_RANGE == 12
STEP3_RANGE == 169

\* numbers of step-2 and step-3 chunks over the 25 lanes
NumStep2Chunks == 12
NumStep3Chunks == 13

\* numbers of step-1 and step-4 chunks taken into the run
NumStep1Chunks == 2
NumStep4Chunks == 1

\* how many chunks the prover may over-range in one run
MaxOverRanged == 1

NumChunks == NumStep1Chunks + NumStep2Chunks + NumStep3Chunks + NumStep4Chunks

\* the step of the chunk assigned at a row (offset + 1)
ChunkSteps(i) ==
    IF i <= NumStep1Chunks THEN 1
    ELSE IF i <= NumStep1Chunks + NumStep2Chunks THEN 2
    ELSE IF i <= NumStep1Chunks + NumStep2Chunks + NumStep3Chunks THEN 3
    ELSE 4

\* the block_count column of the base-13 to base-9 table
get_block_count(digits) == IF digits = 0 THEN 0 ELSE OVERFLOW_TRANSFORM[digits]

\* values a cell the first-row gate leaves free may start from; a negative
\* number stands for the field element modulus minus its magnitude
FirstAccVals == {0, 0 - OVERFLOW_TRANSFORM[4]}

block_count_step1_gate_mut_step4(step, q_all, block_count) ==
    (step = 4) => BoolToF(q_all) * block_count = 0

\* gate "block count step 1": q_all * block_count, created for step 1 only
block_count_step1_gate(step, q_all, block_count) ==
    (step = 1) => BoolToF(q_all) * block_count = 0

\* gate "first row"
first_row_gate(step, q_first, block_count, step2_acc, step3_acc) ==
    CASE step = 2 -> BoolToF(q_first) * (step2_acc - block_count) = 0
      [] step = 3 -> BoolToF(q_first) * (step3_acc - block_count) = 0
      [] OTHER -> TRUE

\* gate "Running up block count"
running_up_gate(step, q_rest, block_count, step2_acc, step2_acc_prev, step3_acc, step3_acc_prev) ==
    LET step2_poly == IF step = 2 THEN step2_acc - step2_acc_prev - block_count
                      ELSE step2_acc - step2_acc_prev
        step3_poly == IF step = 3 THEN step3_acc - step3_acc_prev - block_count
                      ELSE step3_acc - step3_acc_prev
    IN  /\ BoolToF(q_rest) * step2_poly = 0
        /\ BoolToF(q_rest) * step3_poly = 0

\* a prime standing for the modulus of the field F; every accumulator of the
\* model lies between its negative and itself
FieldModulus == 8191

\* the element of F an integer stands for
ToField(v) == v % FieldModulus

RECURSIVE range_product_mut_exclusive(_, _, _)
range_product_mut_exclusive(acc, lo, hi) ==
    IF lo >= hi THEN 1
    ELSE IF lo + 1 = hi THEN ToField(acc - lo)
    ELSE LET mid == (lo + hi) \div 2
         IN  ToField(range_product_mut_exclusive(acc, lo, mid) * range_product_mut_exclusive(acc, mid, hi))

\* (lo..=hi).map(|x| acc - x).fold(one, |acc, x| acc * x): the product of the
\* factors acc - x in F, multiplied by halves
RECURSIVE range_product(_, _, _)
range_product(acc, lo, hi) ==
    IF lo > hi THEN 1
    ELSE IF lo = hi THEN ToField(acc - lo)
    ELSE LET mid == (lo + hi) \div 2
         IN  ToField(range_product(acc, lo, mid) * range_product(acc, mid + 1, hi))

\* the range-check polynomial of the final gate vanishes at acc
RangeProductIsZero(acc, range) == range_product(acc, 0, range) = 0

block_count_final_gate_mut_step2_only(q_enable, step2_acc, step3_acc) ==
    q_enable => RangeProductIsZero(step2_acc, STEP2_RANGE)

\* gate "block count final check"
block_count_final_gate(q_enable, step2_acc, step3_acc) ==
    q_enable => /\ RangeProductIsZero(step2_acc, STEP2_RANGE)
                /\ RangeProductIsZero(step3_acc, STEP3_RANGE)

\* largest accumulator values handed to the final check on its own
MaxStep2Acc == 15
MaxStep3Acc == 172

\* BlockCountFinalConfig::assign_region called on accumulator cells of any
\* value; -1 stands for the largest element of F
BlockCountFinalInit ==
    \E a2 \in -1..MaxStep2Acc, a3 \in -1..MaxStep3Acc :
        blockcount = [pc |-> "rows", offset |-> NumChunks, start |-> <<0, 0>>,
                      step2_acc |-> a2, step3_acc |-> a3, over |-> {},
                      n_over |-> 0, q_enable |-> FALSE, cells |-> <<0, 0>>,
                      sum2 |-> 0, sum3 |-> 0, failed |-> {}]

BlockCountInit ==
    blockcount = [pc |-> "rows", offset |-> 0, start |-> <<0, 0>>,
                  step2_acc |-> 0, step3_acc |-> 0, over |-> {},
                  n_over |-> 0, q_enable |-> FALSE, cells |-> <<0, 0>>,
                  sum2 |-> 0, sum3 |-> 0, failed |-> {}]

\* BlockCountAccConfig::assign_region at the next offset: the prover witnesses
\* a chunk with some number of non-zero digits, the table gives its block
\* count, and the accumulator cells add it (add), unless the prover leaves
\* the count of an over-ranged chunk out; the
\* cells the first-row gate leaves free start from a value of the prover's
\* choice.  The gates of the row are evaluated as it is assigned.
BlockCountAcc_assign_region ==
    /\ blockcount.pc = "rows"
    /\ blockcount.offset < NumChunks
    /\ \E digits \in 0..4, add \in BOOLEAN, s2 \in FirstAccVals, s3 \in FirstAccVals :
        LET offset == blockcount.offset
            step == ChunkSteps(offset + 1)
            block_count == get_block_count(digits)
            q_first == offset = 0
            q_rest == offset # 0
            prev2 == IF q_first THEN s2 ELSE blockcount.step2_acc
            prev3 == IF q_first THEN s3 ELSE blockcount.step3_acc
            step2_acc == prev2 + (IF step = 2 /\ add THEN block_count ELSE 0)
            step3_acc == prev3 + (IF step = 3 /\ add THEN block_count ELSE 0)
            bad == (IF block_count_step1_gate(step, TRUE, block_count)
                    THEN {} ELSE {"block count step 1"})
                   \cup (IF first_row_gate(step, q_first, block_count, step2_acc, step3_acc)
                         THEN {} ELSE {"first row"})
                   \cup (IF running_up_gate(step, q_rest, block_count, step2_acc, prev2, step3_acc, prev3)
                         THEN {} ELSE {"Running up block count"})
        IN  /\ q_rest => (s2 = 0 /\ s3 = 0)
            /\ ~add => digits > step
            /\ digits > step => blockcount.n_over < MaxOverRanged
            /\ blockcount' = [blockcount EXCEPT
                    !.offset = offset + 1,
                    !.start = IF q_first THEN <<s2, s3>> ELSE @,
                    !.step2_acc = step2_acc,
                    !.step3_acc = step3_acc,
                    !.over = IF digits > step THEN @ \cup {step} ELSE @,
                    !.n_over = IF digits > step THEN @ + 1 ELSE @,
                    !.sum2 = IF step = 2 THEN @ + block_count ELSE @,
                    !.sum3 = IF step = 3 THEN @ + block_count ELSE @,
                    !.failed = @ \cup bad]
    /\ UNCHANGED <<flagw, absorb, mixing, keccak, pi, rholane, runsum, baseconv>>

\* BlockCountFinalConfig::assign_region: q_enable and a copy of the
\* accumulator cells of the last row
BlockCountFinal_assign_region ==
    /\ blockcount.pc = "rows"
    /\ blockcount.offset = NumChunks
    /\ blockcount' = [blockcount EXCEPT
            !.pc = "verify",
            !.q_enable = TRUE,
            !.cells = <<blockcount.step2_acc, blockcount.step3_acc>>]
    /\ UNCHANGED <<flagw, absorb, mixing, keccak, pi, rholane, runsum, baseconv>>

verify_block_count ==
    /\ blockcount.pc = "verify"
    /\ blockcount' = [blockcount EXCEPT
            !.pc = "done",
            !.failed = @ \cup (IF block_count_final_gate(blockcount.q_enable, blockcount.cells[1], blockcount.cells[2])
                               THEN {} ELSE {"block count final check"})]
    /\ UNCHANGED <<flagw, absorb, mixing, keccak, pi, rholane, runsum, baseconv>>

---------------------------------------------------------------------------
\* Pi: PiConfig::assign_region

\* lane values of the states handed to Pi are i * mult + add
MaxPiMult == 3
MaxPiAdd == 2

PiInStates == {[i \in Lanes |-> i * mult + add] : mult \in 0..MaxPiMult, add \in 0..MaxPiAdd}

\* the cell of the incoming state at position i
PiInCell(i) == [region |-> "state", column |-> i, offset |-> 0]

pi_idx_mut_swapped(x, y) == 5 * ((3 * x + y) % 5) + x

pi_idx_mut_forward(x, y) == 5 * y + ((2 * x + 3 * y) % 5)

\* let idx = 5 * ((x + 3 * y) % 5) + x
pi_idx(x, y) == 5 * ((x + 3 * y) % 5) + x

\* let idx_next = 5 * x + y
pi_idx_next(x, y) == 5 * x + y

PiInit ==
    \E st \in PiInStates :
        pi = [pc |-> "loop", k |-> 0, state |-> st, next_state |-> <<>>,
              copies |-> {}, sources |-> <<>>]

\* one iteration of the loop over (0..5).cartesian_product(0..5), x outermost
pi_assign_lane ==
    /\ pi.pc = "loop"
    /\ pi.k < NumLanes
    /\ LET x == pi.k \div 5
           y == pi.k % 5
           idx == pi_idx(x, y)
           idx_next == pi_idx_next(x, y)
           cell == PiInCell(idx)
           value == pi.state[idx]
           cell_next == [region |-> "pi", column |-> idx_next, offset |-> 0]
       IN  pi' = [pi EXCEPT
                !.k = @ + 1,
                !.next_state = Append(@, [cell |-> cell_next, value |-> value]),
                !.copies = @ \cup {{cell_next, cell}},
                !.sources = Append(@, idx)]
    /\ UNCHANGED <<flagw, absorb, mixing, keccak, blockcount, rholane, runsum, baseconv>>

\* Ok(next_state.try_into().unwrap())
pi_return ==
    /\ pi.pc = "loop"
    /\ pi.k = NumLanes
    /\ pi' = [pi EXCEPT !.pc = "done"]
    /\ UNCHANGED <<flagw, absorb, mixing, keccak, blockcount, rholane, runsum, baseconv>>

---------------------------------------------------------------------------
\* Rho: LaneRotateConversionConfig, one lane

\* number of output digits of a lane (LANE_SIZE, 64 in the program), taken
\* small enough for every product of the gates to fit a machine integer; the
\* input has one digit more
LaneSize == 5

\* chunks looked up at a time
BASE_NUM_OF_CHUNKS == 4

\* how many witness values of a lane the prover may tamper with
MaxTampered == 1

\* largest multiplier of the digit patterns of the input lanes
MaxDigitMult == 2

Rotations == 0..(LaneSize - 1)

\* digit j of v in base b
Digit(v, b, j) == (v \div Pow(b, j)) % b

\* an input digit maps to the output digit of the same bit
convert_b13_coef(x) == x % 2

\* digits of the input lanes: a_j = (c + m * j) mod 13, the high digit cut
\* so that low + high < 13
InDigit(c, m, j) ==
    LET d == (c + m * j) % B13
        low == c % B13
    IN  IF j = LaneSize /\ low + d >= B13 THEN B13 - 1 - low ELSE d

RECURSIVE LaneOfDigits(_, _, _)
LaneOfDigits(c, m, j) ==
    IF j > LaneSize THEN 0
    ELSE InDigit(c, m, j) * Pow(B13, j) + LaneOfDigits(c, m, j + 1)

RhoInLanes == {LaneOfDigits(c, m, 0) : c \in {0, 1, 5, 12}, m \in 0..MaxDigitMult}

\* width of the chunk that starts at chunk_idx: chunks end where the rotated
\* output position wraps and at the end of the lane
get_step_size(chunk_idx, rotation) ==
    LET cut == LaneSize - rotation
    IN  IF chunk_idx < cut /\ cut < chunk_idx + BASE_NUM_OF_CHUNKS THEN cut - chunk_idx
        ELSE IF LaneSize < chunk_idx + BASE_NUM_OF_CHUNKS THEN LaneSize - chunk_idx
        ELSE BASE_NUM_OF_CHUNKS

\* the (chunk_idx, step) pairs of a lane, chunk_idx starting from 1
RECURSIVE slice_from(_, _)
slice_from(chunk_idx, rotation) ==
    IF chunk_idx >= LaneSize THEN <<>>
    ELSE LET step == get_step_size(chunk_idx, rotation)
         IN  <<[chunk_idx |-> chunk_idx, step |-> step]>> \o slice_from(chunk_idx + step, rotation)

slice_lane(rotation) == slice_from(1, rotation)

\* output digit position of input digit j
rotated_idx(j, rotation) == (j + rotation) % LaneSize

\* the coefficient of a chunk: its digits as one base-13 number
input_chunk_coef(lane, chunk_idx, step) == (lane \div Pow(B13, chunk_idx)) % Pow(B13, step)

\* a base-13 coefficient converted digit by digit into base 9
RECURSIVE table_base9(_)
table_base9(coef) ==
    IF coef = 0 THEN 0 ELSE convert_b13_coef(coef % B13) + B9 * table_base9(coef \div B13)

\* number of digits up to the highest non-zero digit of a coefficient
RECURSIVE digits_used(_)
digits_used(coef) == IF coef = 0 THEN 0 ELSE 1 + digits_used(coef \div B13)

\* membership in the Base13toBase9 table (base13, base9, block_count)
in_base13_to_9_table(base13, base9, block_count) ==
    /\ base13 \in 0..(Pow(B13, BASE_NUM_OF_CHUNKS) - 1)
    /\ base9 = table_base9(base13)
    /\ block_count = get_block_count(digits_used(base13))

\* membership in the SpecialChunk table (last_chunk, output_coef)
in_special_chunk_table(last_chunk, output_coef) ==
    \E low \in 0..(B13 - 1), high \in 0..(B13 - 1) :
        /\ low + high < B13
        /\ last_chunk = low + high * Pow(B13, LaneSize)
        /\ output_coef = convert_b13_coef(low + high)

\* rotate_left of the lane in base 9: output digit (j + r) mod LaneSize is the
\* conversion of input digit j, digits 0 and LaneSize merged
RECURSIVE rotated_normal(_, _, _)
rotated_normal(lane, rotation, j) ==
    IF j >= LaneSize THEN 0
    ELSE convert_b13_coef(Digit(lane, B13, j)) * Pow(B9, rotated_idx(j, rotation))
         + rotated_normal(lane, rotation, j + 1)

rho_expected(lane, rotation) ==
    rotated_normal(lane, rotation, 1)
    + convert_b13_coef(Digit(lane, B13, 0) + Digit(lane, B13, LaneSize)) * Pow(B9, rotation)

RhoColumns == {"input_coef", "input_pob", "input_acc", "output_coef", "output_pob", "output_acc", "overflow_detector"}

\* offsets of a lane region: the normal chunks, the special row and one more
RhoRows == 0..(LaneSize + 1)

\* a region nothing was assigned in; an unassigned cell reads as zero
EmptyRegion ==
    [cells |-> [c \in RhoColumns |-> [r \in RhoRows |-> 0]],
     assigned |-> {}, q_normal |-> {}, q_special |-> {}, copies |-> {}]

\* region.assign_advice / assign_fixed: a later assignment replaces the value
assign_cell(region, column, offset, value) ==
    [region EXCEPT !.cells[column][offset] = value,
                   !.assigned = @ \cup {<<column, offset>>}]

running_down_input_gate_mut_sign(q_normal, coef, pob, acc, acc_next) ==
    BoolToF(q_normal) * (acc_next - acc - coef * pob) = 0

\* gate "Running down input"
running_down_input_gate(q_normal, coef, pob, acc, acc_next) ==
    BoolToF(q_normal) * (acc_next - acc + coef * pob) = 0

\* gate "Running up for output"
running_up_output_gate(q_normal, q_special, coef, pob, acc, acc_next) ==
    LET poly == acc_next - acc - coef * pob
    IN  /\ BoolToF(q_normal) * poly = 0
        /\ BoolToF(q_special) * poly = 0

base13_to_9_lookup_mut_no_od(q_normal, base13_coef, base9_coef, od) ==
    \E block_count \in {0} \cup {OVERFLOW_TRANSFORM[i] : i \in 1..4} :
        in_base13_to_9_table(BoolToF(q_normal) * base13_coef, BoolToF(q_normal) * base9_coef, block_count)

\* lookup of (input_coef, output_coef, overflow_detector) under q_normal
base13_to_9_lookup(q_normal, base13_coef, base9_coef, od) ==
    in_base13_to_9_table(BoolToF(q_normal) * base13_coef, BoolToF(q_normal) * base9_coef, BoolToF(q_normal) * od)

\* lookup of (input_acc, output_coef) under q_special
special_chunk_lookup(q_special, input_acc, output_coef) ==
    in_special_chunk_table(BoolToF(q_special) * input_acc, BoolToF(q_special) * output_coef)

RhoTampers == {"none", "input_coef", "output_coef", "od", "input_acc"}

\* the rotation offsets of Keccak's rho step, ROTATION_CONSTANTS[x][y]
ROTATION_CONSTANTS ==
    << <<0, 36, 3, 41, 18>>,
       <<1, 44, 10, 45, 2>>,
       <<62, 6, 43, 15, 61>>,
       <<28, 55, 25, 21, 56>>,
       <<27, 20, 39, 8, 14>> >>

\* ROTATION_CONSTANTS[x][y] with indices from 0
RotationConstant(x, y) == ROTATION_CONSTANTS[x + 1][y + 1]

\* the rotation LaneRotateConversionConfig::configure takes for lane_idx
configure_rotation(lane_idx) ==
    LET x == lane_idx % 5
        y == lane_idx \div 5
    IN  RotationConstant(x, y)

\* a lane config for every state column; the rotation acts on lanes of
\* LaneSize digits, so it is taken modulo LaneSize
RhoLaneInit ==
    \E lane \in RhoInLanes, lane_idx \in Lanes :
        rholane = [pc |-> "chunks", lane |-> lane, lane_idx |-> lane_idx,
                   rotation |-> configure_rotation(lane_idx) % LaneSize,
                   offset |-> 0, region |-> EmptyRegion,
                   in_acc |-> lane, out_acc |-> 0, tampered |-> 0,
                   step2_od |-> <<>>, step3_od |-> <<>>,
                   returned |-> [column |-> "none", offset |-> 0, value |-> 0],
                   failed |-> {}]

\* one iteration of the loop over slices.zip(conversions): the row of a normal
\* chunk.  The conversion witness is the prover's: at most MaxTampered of its
\* values differ from what the lane gives.
rho_assign_chunk ==
    /\ rholane.pc = "chunks"
    /\ rholane.offset < Len(slice_lane(rholane.rotation))
    /\ \E tamper \in RhoTampers :
        LET offset == rholane.offset
            slice == slice_lane(rholane.rotation)[offset + 1]
            d(kind) == IF tamper = kind THEN 1 ELSE 0
            input_coef == (input_chunk_coef(rholane.lane, slice.chunk_idx, slice.step) + d("input_coef"))
                          % Pow(B13, BASE_NUM_OF_CHUNKS)
            input_pob == Pow(B13, slice.chunk_idx)
            input_pre_acc == rholane.in_acc + d("input_acc")
            output_coef == table_base9(input_coef) + d("output_coef")
            output_power_of_base == Pow(B9, rotated_idx(slice.chunk_idx, rholane.rotation))
            output_pre_acc == rholane.out_acc
            block_count == get_block_count(digits_used(input_coef)) + d("od")
            r1 == assign_cell(rholane.region, "input_coef", offset, input_coef)
            r2 == assign_cell(r1, "input_pob", offset, input_pob)
            r3 == assign_cell(r2, "input_acc", offset, input_pre_acc)
            r4 == assign_cell(r3, "output_coef", offset, output_coef)
            r5 == assign_cell(r4, "output_pob", offset, input_pob)
            r6 == assign_cell(r5, "output_acc", offset, output_pre_acc)
            r7 == assign_cell(r6, "overflow_detector", offset, block_count)
            od == [column |-> "overflow_detector", offset |-> offset, value |-> block_count]
        IN  /\ tamper # "none" => rholane.tampered < MaxTampered
            /\ rholane' = [rholane EXCEPT
                    !.offset = offset + 1,
                    !.region = [r7 EXCEPT
                        !.q_normal = @ \cup {offset},
                        !.copies = @ \cup (IF offset = 0
                                           THEN {[column |-> "input_acc", offset |-> 0, to |-> "lane_base_13"],
                                                 [column |-> "output_acc", offset |-> 0, to |-> "zero"]}
                                           ELSE {})],
                    !.in_acc = input_pre_acc - input_coef * input_pob,
                    !.out_acc = output_pre_acc + output_coef * output_power_of_base,
                    !.tampered = IF tamper # "none" THEN @ + 1 ELSE @,
                    !.step2_od = IF slice.step = 2 THEN Append(@, od) ELSE @,
                    !.step3_od = IF slice.step = 3 THEN Append(@, od) ELSE @]
    /\ UNCHANGED <<flagw, absorb, mixing, keccak, blockcount, pi, runsum, baseconv>>

\* the special chunks: the row after the last normal chunk and the cell below
rho_assign_special ==
    /\ rholane.pc = "chunks"
    /\ rholane.offset = Len(slice_lane(rholane.rotation))
    /\ \E tamper \in {"none", "output_acc_post"} :
        LET offset == rholane.offset
            low == Digit(rholane.lane, B13, 0)
            high == Digit(rholane.lane, B13, LaneSize)
            special_input == rholane.in_acc
            special_output_coef == convert_b13_coef(low + high)
            output_acc_pre == rholane.out_acc
            output_acc_post == output_acc_pre + special_output_coef * Pow(B9, rholane.rotation)
                               + (IF tamper = "output_acc_post" THEN 1 ELSE 0)
            r1 == assign_cell(rholane.region, "input_acc", offset, special_input)
            r2 == assign_cell(r1, "output_coef", offset, special_output_coef)
            r3 == assign_cell(r2, "output_pob", offset, Pow(B9, rholane.rotation))
            r4 == assign_cell(r3, "output_coef", offset, output_acc_pre)
            r5 == assign_cell(r4, "output_coef", offset + 1, output_acc_post)
        IN  /\ tamper # "none" => rholane.tampered < MaxTampered
            /\ rholane' = [rholane EXCEPT
                    !.pc = "verify",
                    !.region = [r5 EXCEPT !.q_special = @ \cup {offset}],
                    !.tampered = IF tamper # "none" THEN @ + 1 ELSE @,
                    !.returned = [column |-> "output_coef", offset |-> offset + 1,
                                  value |-> output_acc_post]]
    /\ UNCHANGED <<flagw, absorb, mixing, keccak, blockcount, pi, runsum, baseconv>>

\* the gates, lookups and copy constraints of the lane region that do not hold
rho_failed_checks(region, lane) ==
    LET cell(c, r) == region.cells[c][r]
        rows == 0..LaneSize
    IN  {"Running down input" : r \in {r \in rows :
            ~running_down_input_gate(r \in region.q_normal, cell("input_coef", r), cell("input_pob", r), cell("input_acc", r), cell("input_acc", r + 1))}}
        \cup {"Running up for output" : r \in {r \in rows :
            ~running_up_output_gate(r \in region.q_normal, r \in region.q_special, cell("output_coef", r), cell("output_pob", r), cell("output_acc", r), cell("output_acc", r + 1))}}
        \cup {"base13_to_9 lookup" : r \in {r \in rows :
            ~base13_to_9_lookup(r \in region.q_normal, cell("input_coef", r), cell("output_coef", r), cell("overflow_detector", r))}}
        \cup {"special lookup" : r \in {r \in rows :
            ~special_chunk_lookup(r \in region.q_special, cell("input_acc", r), cell("output_coef", r))}}
        \cup {"copy lane" : k \in {k \in region.copies : k.to = "lane_base_13" /\ cell(k.column, k.offset) # lane}}
        \cup {"constant zero" : k \in {k \in region.copies : k.to = "zero" /\ cell(k.column, k.offset) # 0}}

verify_rho_lane ==
    /\ rholane.pc = "verify"
    /\ rholane' = [rholane EXCEPT
            !.pc = "done",
            !.failed = rho_failed_checks(rholane.region, rholane.lane)]
    /\ UNCHANGED <<flagw, absorb, mixing, keccak, blockcount, pi, runsum, baseconv>>

---------------------------------------------------------------------------
\* SumConfig: running sum of overflow detector cells

\* longest list of cells summed
MaxSumLen == 3

\* values of the cells summed
SumValues == {0} \cup {OVERFLOW_TRANSFORM[i] : i \in 1..3}

\* lists of more than one cell
SumInputs == UNION {[1..n -> SumValues] : n \in 2..MaxSumLen}

\* gate "sum"
sum_gate(q_enable, x, sum, sum_next) ==
    BoolToF(q_enable) * (sum_next - sum - x) = 0

RunSumInit ==
    \E xs \in SumInputs :
        runsum = [pc |-> "loop", xs |-> xs, offset |-> 0, sum |-> 0,
                  x |-> [r \in 0..MaxSumLen |-> 0],
                  sums |-> [r \in 0..MaxSumLen |-> 0],
                  q_enable |-> {}, copies |-> {},
                  returned |-> [offset |-> 0, value |-> 0],
                  failed |-> {}]

\* one iteration of the loop over xs: copy x, write the running sum, add
sum_assign_row ==
    /\ runsum.pc = "loop"
    /\ runsum.offset < Len(runsum.xs)
    /\ LET offset == runsum.offset
           value == runsum.xs[offset + 1]
       IN  runsum' = [runsum EXCEPT
                !.x[offset] = value,
                !.copies = @ \cup {[column |-> "x", offset |-> offset, from |-> offset + 1]},
                !.sums[offset] = runsum.sum,
                !.sum = @ + value,
                !.offset = @ + 1]
    /\ UNCHANGED <<flagw, absorb, mixing, keccak, blockcount, pi, rholane, baseconv>>

\* the "last sum" cell, which is returned; its value is the prover's
sum_assign_last ==
    /\ runsum.pc = "loop"
    /\ runsum.offset = Len(runsum.xs)
    /\ \E delta \in {0, 1} :
        LET sum == runsum.sum + delta
        IN  runsum' = [runsum EXCEPT
                !.pc = "verify",
                !.sums[runsum.offset] = sum,
                !.returned = [offset |-> runsum.offset, value |-> sum]]
    /\ UNCHANGED <<flagw, absorb, mixing, keccak, blockcount, pi, rholane, baseconv>>

verify_sum ==
    /\ runsum.pc = "verify"
    /\ runsum' = [runsum EXCEPT
            !.pc = "done",
            !.failed = {"sum" : r \in {r \in 0..(MaxSumLen - 1) :
                            ~sum_gate(r \in runsum.q_enable, runsum.x[r], runsum.sums[r], runsum.sums[r + 1])}}
                       \cup {"copy x" : k \in {k \in runsum.copies : runsum.x[k.offset] # runsum.xs[k.from]}}]
    /\ UNCHANGED <<flagw, absorb, mixing, keccak, blockcount, pi, rholane, baseconv>>

\* x_0 + ... + x_{n-1}
RECURSIVE SeqSum(_)
SeqSum(xs) == IF xs = <<>> THEN 0 ELSE Head(xs) + SeqSum(Tail(xs))

---------------------------------------------------------------------------
(* KeccakFConfig::assign_all: the base conversion that ends a round *)

\* a lane whose lowest base-9 digit is d0 and whose n - 1 digits above it
\* are d
RECURSIVE DigitRun(_, _, _)
DigitRun(d0, d, n) ==
    IF n = 0 THEN 0 ELSE d0 + B9 * DigitRun(d, d, n - 1)

\* lanes of up to LaneBits + 1 base-9 digits: the lanes of LaneBits digits
\* are well formed, the longer ones are not
B9LaneInputs == {DigitRun(d0, d, n) : d0 \in 0..(B9 - 1), d \in 0..(B9 - 1), n \in 0..(LaneBits + 1)}

\* a lane is a base-9 value of LaneBits digits
WellFormedB9(v) == v >= 0 /\ v < Pow(B9, LaneBits)

\* states handed to the conversion: one lane or every lane set
BaseConvInStates ==
    {Single(i, v) : i \in ProbeLanes, v \in B9LaneInputs}
        \cup {[i \in Lanes |-> v] : v \in B9LaneInputs}

BaseConvInit ==
    \E state \in BaseConvInStates :
        baseconv = [pc |-> "convert", state |-> state, out_state |-> ZeroState,
                    activation_flag |-> 0, fired |-> {}]

\* "Witness activation_flag" and base_conversion_config.assign_region
base_conv_assign_region ==
    /\ baseconv.pc = "convert"
    /\ baseconv' = [baseconv EXCEPT
            !.pc = "assert",
            !.activation_flag = 1,
            !.out_state = state_base_conversion(baseconv.state)]
    /\ UNCHANGED <<flagw, absorb, mixing, keccak, blockcount, pi, rholane, runsum>>

\* assert!(lane < B13^64) for every lane of out_state: fired collects the
\* lanes on which it fails
base_conv_assert ==
    /\ baseconv.pc = "assert"
    /\ baseconv' = [baseconv EXCEPT
            !.pc = "done",
            !.fired = {idx \in Lanes : ~(baseconv.out_state[idx] < Pow(B13, LaneBits))}]
    /\ UNCHANGED <<flagw, absorb, mixing, keccak, blockcount, pi, rholane, runsum>>

---------------------------------------------------------------------------
Idle == [pc |-> "idle"]

InitFlag ==
    /\ FlagInit
    /\ absorb = Idle /\ mixing = Idle /\ keccak = Idle /\ blockcount = Idle
    /\ pi = Idle /\ rholane = Idle /\ runsum = Idle
    /\ baseconv = Idle

NextFlag == witness_flag_region \/ verify_flag_gate

SpecFlag == InitFlag /\ [][NextFlag]_vars

InitAbsorb ==
    /\ AbsorbInit
    /\ flagw = Idle /\ mixing = Idle /\ keccak = Idle /\ blockcount = Idle
    /\ pi = Idle /\ rholane = Idle /\ runsum = Idle
    /\ baseconv = Idle

NextAbsorb == copy_state_flag_next_inputs \/ verify_absorb_gate

SpecAbsorb == InitAbsorb /\ [][NextAbsorb]_vars

InitMixing ==
    /\ MixingInit
    /\ flagw = Idle /\ absorb = Idle /\ keccak = Idle /\ blockcount = Idle
    /\ pi = Idle /\ rholane = Idle /\ runsum = Idle
    /\ baseconv = Idle

NextMixing ==
    \/ enforce_flag_consistency
    \/ iota_b9_last_round
    \/ mixing_absorb
    \/ mixing_base_conv
    \/ mixing_iota_b13
    \/ assign_out_mixing_states
    \/ verify_mixing

SpecMixing == InitMixing /\ [][NextMixing]_vars

InitKeccak ==
    /\ KeccakInit
    /\ flagw = Idle /\ absorb = Idle /\ mixing = Idle /\ blockcount = Idle
    /\ pi = Idle /\ rholane = Idle /\ runsum = Idle
    /\ baseconv = Idle

NextKeccak ==
    \/ assign_all_theta
    \/ assign_all_rho
    \/ assign_all_pi
    \/ assign_all_xi
    \/ assign_all_iota_b9
    \/ assign_all_base_conv
    \/ assign_all_mixing
    \/ constrain_out_state
    \/ verify_keccak

SpecKeccak == InitKeccak /\ [][NextKeccak]_vars

InitBlockCount ==
    /\ BlockCountInit
    /\ flagw = Idle /\ absorb = Idle /\ mixing = Idle /\ keccak = Idle
    /\ pi = Idle /\ rholane = Idle /\ runsum = Idle
    /\ baseconv = Idle

NextBlockCount ==
    \/ BlockCountAcc_assign_region
    \/ BlockCountFinal_assign_region
    \/ verify_block_count

SpecBlockCount == InitBlockCount /\ [][NextBlockCount]_vars

InitBlockCountFinal ==
    /\ BlockCountFinalInit
    /\ flagw = Idle /\ absorb = Idle /\ mixing = Idle /\ keccak = Idle
    /\ pi = Idle /\ rholane = Idle /\ runsum = Idle
    /\ baseconv = Idle

NextBlockCountFinal ==
    \/ BlockCountFinal_assign_region
    \/ verify_block_count

SpecBlockCountFinal == InitBlockCountFinal /\ [][NextBlockCountFinal]_vars

InitPi ==
    /\ PiInit
    /\ flagw = Idle /\ absorb = Idle /\ mixing = Idle /\ keccak = Idle
    /\ blockcount = Idle /\ rholane = Idle /\ runsum = Idle
    /\ baseconv = Idle

NextPi == pi_assign_lane \/ pi_return

SpecPi == InitPi /\ [][NextPi]_vars

InitRhoLane ==
    /\ RhoLaneInit
    /\ flagw = Idle /\ absorb = Idle /\ mixing = Idle /\ keccak = Idle
    /\ blockcount = Idle /\ pi = Idle /\ runsum = Idle
    /\ baseconv = Idle

NextRhoLane ==
    \/ rho_assign_chunk
    \/ rho_assign_special
    \/ verify_rho_lane

SpecRhoLane == InitRhoLane /\ [][NextRhoLane]_vars

InitRunSum ==
    /\ RunSumInit
    /\ flagw = Idle /\ absorb = Idle /\ mixing = Idle /\ keccak = Idle
    /\ blockcount = Idle /\ pi = Idle /\ rholane = Idle
    /\ baseconv = Idle

NextRunSum ==
    \/ sum_assign_row
    \/ sum_assign_last
    \/ verify_sum

SpecRunSum == InitRunSum /\ [][NextRunSum]_vars

InitBaseConv ==
    /\ BaseConvInit
    /\ flagw = Idle /\ absorb = Idle /\ mixing = Idle /\ keccak = Idle
    /\ blockcount = Idle /\ pi = Idle /\ rholane = Idle /\ runsum = Idle

NextBaseConv == base_conv_assign_region \/ base_conv_assert

SpecBaseConv == InitBaseConv /\ [][NextBaseConv]_vars

---------------------------------------------------------------------------
\* C1: whenever the "Ensure flag consistency" gate is satisfied by the pair
\* (flag, negated_flag), both values are Boolean and they sum to 1.
C1_FlagGateSound ==
    (flagw.pc = "done" /\ flagw.ok) =>
        /\ flagw.cells[1] \in {0, 1}
        /\ flagw.cells[2] \in {0, 1}
        /\ flagw.cells[1] + flagw.cells[2] = 1


\* C2: in every accepted witness of MixingConfig each lane i of the exposed
\* output state equals non_mixing_branch[i]*(1 - flag) + mixing_branch[i]*flag.
C2_SelectionAllLanes ==
    MixingAccepted =>
        \A i \in Lanes :
            mixing.state_row[i] =
                mixing.non_mix_res[i] * (1 - mixing.flag) + mixing.mix_res[i] * mixing.flag

\* C3: with flag_bool = true and a next input, claiming the mixing branch is
\* accepted and claiming the non-mixing branch's value is rejected.
C3_MixingFlagTrue ==
    (mixing.pc = "done" /\ mixing.flag_bool /\ mixing.next_mixing.some) =>
        /\ (mixing.out_state = mixing.mix_res) => MixingAccepted
        /\ (mixing.out_state = mixing.non_mix_res) => ~MixingAccepted

\* C4: with flag_bool = false a claimed out_state is accepted only when it
\* equals the non-mixing branch, with or without a next input.
C4_MixingFlagFalse ==
    (MixingAccepted /\ ~mixing.flag_bool) => mixing.out_state = mixing.non_mix_res

\* C5: with q_mixing enabled and the flag cell of the current row equal to 1,
\* the absorb gate is satisfied exactly when every rate lane of the next row
\* is the previous row's lane plus twice the current row's lane.
C5_AbsorbWhenMixing ==
    (absorb.pc = "done" /\ absorb.q_mixing /\ absorb.cur[ABSORB_NEXT_INPUTS] = 1) =>
        (absorb.ok <=>
            \A i \in 0 .. 16 : absorb.next[i] = absorb.prev[i] + 2 * absorb.cur[i])

\* an accepted absorption of a non-zero next input
C5_Witness ==
    /\ absorb.pc = "done" /\ absorb.q_mixing /\ absorb.ok
    /\ absorb.cur[ABSORB_NEXT_INPUTS] = 1
    /\ \E i \in 0 .. 16 : absorb.cur[i] # 0

\* C6: with the flag cell equal to 0 the absorb gate is satisfied whatever
\* the three rows hold, also with q_mixing enabled.
C6_AbsorbInert ==
    (absorb.pc = "done" /\ absorb.q_mixing /\ absorb.cur[ABSORB_NEXT_INPUTS] = 0) =>
        absorb.ok

\* flag 0 and rows that do not satisfy the absorb relation
C6_Witness ==
    /\ absorb.pc = "done" /\ absorb.q_mixing /\ absorb.ok
    /\ absorb.cur[ABSORB_NEXT_INPUTS] = 0
    /\ \E i \in 0 .. 16 : absorb.next[i] # absorb.prev[i] + 2 * absorb.cur[i]


\* C7: when assign_all has finished, Theta, Rho, Pi and Xi have each been
\* applied in all 24 rounds, and Iota 24 times (the last one inside Mixing).
C7_FullPermutation ==
    keccak.pc = "done" =>
        /\ \A step \in {"theta", "rho", "pi", "xi"} : Applied(step) = PERMUTATION
        /\ Applied("iota_b9") + Applied("mixing") = PERMUTATION

\* C8: the expected final state handed to Mixing is computed with
\* ROUND_CONSTANTS[PERMUTATION-1], the constant of Mixing's Iota gates, and a
\* correct claimed out_state passes verification for both values of the flag.
C8_LastRoundConstant ==
    keccak.pc = "done" =>
        LET correct == KeccakFArith_mixing(keccak.loop_out, keccak.next_mixing,
                                           ROUND_CONSTANT_LAST)
        IN  /\ keccak.mix_res = correct
            /\ (keccak.out_state = correct /\ keccak.flag = keccak.next_mixing.some)
                   => keccak.failed = {}

\* C9: row 0 of the constrain_out_state region holds the cells Mixing
\* returned, row 1 the claimed out_state, and the q_out gate is satisfied
\* exactly when the two rows agree in all 25 lanes.
C9_OutStateEquality ==
    keccak.pc = "done" =>
        /\ keccak.q_out
        /\ keccak.rows[1] = keccak.mix.state_row
        /\ keccak.rows[2] = keccak.out_state
        /\ ("out_state" \notin keccak.failed
                <=> \A i \in Lanes : keccak.rows[1][i] = keccak.rows[2][i])

\* a claimed out_state that differs from the Mixing result in a lane other
\* than lane 0 and is rejected by the q_out gate
C9_Witness ==
    /\ keccak.pc = "done"
    /\ "out_state" \in keccak.failed
    /\ keccak.rows[1][0] = keccak.rows[2][0]
    /\ keccak.rows[1] # keccak.rows[2]

\* C10: with block counts from {0, 1, 13, 170}, 12 step-2 and 13 step-3
\* chunks and accumulators that start at 0 and run up as their gates demand,
\* a step-1 chunk with a non-zero block count violates the step-1 gate, and a
\* step-2 chunk with block count 13 or 170 or a step-3 chunk with block count
\* 170 violates the final range check, whatever the other chunks are.
C10_OverflowRejection ==
    (/\ blockcount.pc = "done"
     /\ blockcount.start = <<0, 0>>
     /\ "first row" \notin blockcount.failed
     /\ "Running up block count" \notin blockcount.failed) =>
        /\ 1 \in blockcount.over => "block count step 1" \in blockcount.failed
        /\ (2 \in blockcount.over \/ 3 \in blockcount.over) =>
                "block count final check" \in blockcount.failed

C10_Witness ==
    /\ blockcount.pc = "done"
    /\ blockcount.start = <<0, 0>>
    /\ blockcount.over = {3}
    /\ blockcount.cells[1] = STEP2_RANGE
    /\ blockcount.cells[2] = OVERFLOW_TRANSFORM[4]
    /\ blockcount.failed = {"block count final check"}

\* C11: on a row of the final block-count region, where the selector is
\* enabled, the gate "block count final check" is satisfied if and only if the
\* step-2 accumulator is one of 0..12 and the step-3 accumulator one of 0..169.
C11_FinalRangeCheck ==
    blockcount.pc = "done" =>
        /\ blockcount.q_enable
        /\ ("block count final check" \notin blockcount.failed
                <=> (/\ blockcount.cells[1] \in 0..12
                     /\ blockcount.cells[2] \in 0..169))

C11_Witness ==
    /\ blockcount.pc = "done"
    /\ blockcount.offset = NumChunks
    /\ blockcount.cells = <<12, 169>>
    /\ blockcount.failed = {}

RhoSlices == slice_lane(rholane.rotation)
RhoSpecialRow == Len(RhoSlices)
RhoCell(c, r) == rholane.region.cells[c][r]

\* sum of input_coef * 13^chunk_idx over the normal rows from offset r on
RECURSIVE DeclaredInput(_)
DeclaredInput(r) ==
    IF r >= RhoSpecialRow THEN 0
    ELSE RhoCell("input_coef", r) * Pow(B13, RhoSlices[r + 1].chunk_idx) + DeclaredInput(r + 1)

\* C13: the lane region of an honest witness is accepted, and the lane that an
\* accepted region returns is rotate_left of the input lane by the lane's
\* rotation, converted to base 9 (output digit (j + r) mod LaneSize converts
\* input digit j, position r converts digit 0 + digit LaneSize).
C13_RhoCorrect ==
    rholane.pc = "done" =>
        /\ rholane.tampered = 0 => rholane.failed = {}
        /\ rholane.failed = {} =>
                rholane.returned.value = rho_expected(rholane.lane, rholane.rotation)

\* C14: the input accumulator of row 0 is copy-constrained to the input lane,
\* the rows of an honest witness satisfy acc_next = acc - input_coef * 13^pos,
\* and whenever that gate and the copy hold, the special row's input
\* accumulator is the lane minus the declared coefficients at their positions.
C14_InputRunDown ==
    rholane.pc = "done" =>
        /\ [column |-> "input_acc", offset |-> 0, to |-> "lane_base_13"] \in rholane.region.copies
        /\ rholane.tampered = 0 => "Running down input" \notin rholane.failed
        /\ ("Running down input" \notin rholane.failed /\ "copy lane" \notin rholane.failed) =>
                /\ RhoCell("input_acc", RhoSpecialRow) = rholane.lane - DeclaredInput(0)
                /\ DeclaredInput(0) + RhoCell("input_acc", RhoSpecialRow) = rholane.lane

C14_Witness ==
    /\ rholane.pc = "done"
    /\ RhoSpecialRow = 2
    /\ rholane.lane # 0
    /\ RhoCell("input_coef", 1) # input_chunk_coef(rholane.lane, RhoSlices[2].chunk_idx, RhoSlices[2].step)
    /\ "Running down input" \notin rholane.failed
    /\ "copy lane" \notin rholane.failed

\* C15: the output accumulator of row 0 is constrained to the constant 0 and
\* the output power-of-base cell of every normal row holds 9^k, k the rotated
\* output position of the row's chunk.
C15_OutputPowersOfNine ==
    rholane.pc = "done" =>
        /\ [column |-> "output_acc", offset |-> 0, to |-> "zero"] \in rholane.region.copies
        /\ \A r \in rholane.region.q_normal :
                RhoCell("output_pob", r) = Pow(B9, rotated_idx(RhoSlices[r + 1].chunk_idx, rholane.rotation))

\* C16: the cell returned as the converted lane is the output accumulator of
\* the row after the special row, and the running-up gate under q_special
\* binds it to output_acc + special output_coef * 9^rotation.
C16_OutputLaneBinding ==
    rholane.pc = "done" =>
        /\ rholane.returned.column = "output_acc"
        /\ rholane.returned.offset = RhoSpecialRow + 1
        /\ "Running up for output" \notin rholane.failed =>
                rholane.returned.value = RhoCell("output_acc", RhoSpecialRow)
                    + convert_b13_coef(Digit(rholane.lane, B13, 0) + Digit(rholane.lane, B13, LaneSize))
                      * Pow(B9, rholane.rotation)

\* C17: q_special is enabled on exactly the row after the last normal chunk,
\* and on that row of an honest witness the input accumulator holds
\* low + high * 13^LaneSize and the output_coef cell the conversion of low + high.
C17_SpecialChunkLookup ==
    rholane.pc = "done" =>
        /\ rholane.region.q_special = {RhoSpecialRow}
        /\ rholane.tampered = 0 =>
            LET low == Digit(rholane.lane, B13, 0)
                high == Digit(rholane.lane, B13, LaneSize)
            IN  /\ RhoCell("input_acc", RhoSpecialRow) = low + high * Pow(B13, LaneSize)
                /\ RhoCell("output_coef", RhoSpecialRow) = convert_b13_coef(low + high)
                /\ "special lookup" \notin rholane.failed

C19_RunningSum ==
    runsum.pc = "done" =>
        LET n == Len(runsum.xs)
        IN  /\ \A i \in 0..(n - 1) :
                    [column |-> "x", offset |-> i, from |-> i + 1] \in runsum.copies
            /\ runsum.sums[0] = 0
            /\ runsum.q_enable = 0..(n - 1)
            /\ runsum.returned.offset = n
            /\ runsum.failed = {} => runsum.returned.value = SeqSum(runsum.xs)

\* C20: while the rows of BlockCountAccConfig are assigned in order and their
\* first-row and running-up gates hold, step2_acc is the sum of the block
\* counts of the step-2 chunks seen so far and step3_acc that of the step-3
\* chunks (sum2 and sum3 add a row's block_count on rows of their own class
\* only, and nothing on step-1 and step-4 rows).
C20_BlockCountAccumulation ==
    (/\ blockcount.pc = "rows"
     /\ blockcount.offset > 0
     /\ "first row" \notin blockcount.failed
     /\ "Running up block count" \notin blockcount.failed) =>
        /\ blockcount.step2_acc = blockcount.sum2
        /\ blockcount.step3_acc = blockcount.sum3

\* C21: on the rows of a step-1 BlockCountAccConfig (q_all enabled on each)
\* a chunk with a non-zero block count, that is one with more than one
\* non-zero digit, breaks the gate "block count step 1" of its own row, and
\* only such a chunk does; the rejection is recorded as the row is assigned,
\* whatever the final range check says later.
C21_Step1NoBlockCount ==
    blockcount.pc \in {"rows", "verify", "done"} =>
        ((1 \in blockcount.over) <=> ("block count step 1" \in blockcount.failed))

\* a run whose only failure is the step-1 gate: the final range check passes
C21_Witness ==
    /\ blockcount.pc = "done"
    /\ 1 \in blockcount.over
    /\ blockcount.failed = {"block count step 1"}

\* the sub-steps of one loop iteration, in the order of the loop body
RoundOrder == <<"theta", "rho", "pi", "xi", "iota_b9", "base_conv">>

\* C22: assign_all runs 23 loop iterations; iteration r calls Theta, Rho, Pi,
\* Xi, Iota base 9 (with round index r, the index of its round constant) and
\* the base conversion (activation flag 1) in this order, every step on the
\* cells the step before it returned, the first step of iteration r+1 on the
\* converted state of iteration r; Mixing is called once, on the cells the
\* loop leaves, and constrain_out_state once, after it, on Mixing's cells.
C22_RoundOrdering ==
    LET ops == keccak.ops
        n == Len(RoundOrder)
        loop_len == n * (PERMUTATION - 1)
    IN  /\ Len(ops) <= loop_len + 1
        /\ \A i \in DOMAIN ops :
              /\ ops[i].from = i - 1
              /\ i <= loop_len =>
                    /\ ops[i].op = RoundOrder[((i - 1) % n) + 1]
                    /\ ops[i].round = (i - 1) \div n
                    /\ ops[i].op = "iota_b9" => ops[i].arg = ops[i].round
                    /\ ops[i].op = "base_conv" => ops[i].arg = 1
              /\ i = loop_len + 1 => ops[i].op = "mixing"
        /\ keccak.pc \in {"constrain_out", "verify", "done"} =>
              /\ Len(ops) = loop_len + 1
              /\ Applied("mixing") = 1
              /\ Applied("base_conv") = 23
        /\ keccak.q_out <=> keccak.pc \in {"verify", "done"}
        /\ keccak.q_out => keccak.rows[1] = keccak.mix.state_row

\* the end of a run: 138 loop steps, then Mixing, then constrain_out_state
C22_Witness ==
    /\ keccak.pc = "done"
    /\ Len(keccak.ops) = 139
    /\ keccak.ops[138] = [op |-> "base_conv", round |-> 22, from |-> 137, arg |-> 1]
    /\ keccak.ops[139].op = "mixing"
    /\ keccak.q_out

\* the regions of MixingConfig::assign_state in the order of its calls
MixingRegionOrder == <<"flag", "iota_b9", "absorb", "base_conv", "iota_b13", "out">>

\* how many of them are assigned when assign_state stands at a position
MixingRegionsAt(pc) ==
    CASE pc = "flag" -> 0
      [] pc = "iota_b9" -> 1
      [] pc = "absorb" -> 2
      [] pc = "base_conv" -> 3
      [] pc = "iota_b13" -> 4
      [] pc = "out" -> 5
      [] OTHER -> 6

\* C23: the regions MixingConfig::assign_state has assigned at any point of a
\* run are the same list (flag, Iota base 9 of the last round, Absorb, base
\* conversion, Iota base 13, output selection) whatever flag_bool and
\* next_mixing are, so two runs that differ in them only assign the same
\* regions in the same order.
C23_StaticShape ==
    mixing.pc # "idle" =>
        mixing.regions = SubSeq(MixingRegionOrder, 1, MixingRegionsAt(mixing.pc))

\* a run without mixing and without a next input that assigned the regions
\* of the mixing branch too
C23_Witness ==
    /\ mixing.pc = "done"
    /\ ~mixing.flag_bool
    /\ ~mixing.next_mixing.some
    /\ mixing.regions = MixingRegionOrder
    /\ mixing.failed = {}

\* C24: the next-input row written by assign_next_inp_and_flag holds, in each
\* of the 17 rate lanes 0..16, the base-9 encoding of the base-2 input lane.
C24_NextInputEncoding ==
    absorb.pc \in {"verify", "done"} =>
        \A i \in RateLanes : absorb.cur[i] = convert_b2_to_b9(absorb.next_input[i])

\* C25: after the base-9 to base-13 conversion of a state whose lanes are
\* well-formed base-9 values of the lane width, every one of the 25 output
\* lanes is below 13 to the lane width, so the assertion that follows the
\* conversion does not fire.
C25_PostConversionBound ==
    (baseconv.pc = "done" /\ \A i \in Lanes : WellFormedB9(baseconv.state[i])) =>
        /\ \A i \in Lanes : baseconv.out_state[i] < Pow(B13, LaneBits)
        /\ baseconv.fired = {}

\* the largest converted lane, every digit 1, in all 25 lanes
C25_Witness ==
    /\ baseconv.pc = "done"
    /\ \A i \in Lanes :
          /\ WellFormedB9(baseconv.state[i])
          /\ baseconv.out_state[i] = (Pow(B13, LaneBits) - 1) \div (B13 - 1)
    /\ baseconv.fired = {}

\* C26: once the first chunk row of a lane is assigned and its "first row"
\* gate holds, the accumulator of the row's own step class equals the row's
\* block_count and every other accumulator is 0, that is, neither
\* accumulator started from a non-zero value; in particular no run that
\* satisfies every gate starts step2_acc or step3_acc at a non-zero offset.
C26_FirstRowPinned ==
    (/\ blockcount.pc \in {"rows", "verify", "done"}
     /\ blockcount.offset >= 1
     /\ "first row" \notin blockcount.failed) =>
        blockcount.start = <<0, 0>>

\* C27: the rotation that LaneRotateConversionConfig::configure takes for the
\* state lane of index idx is ROTATION_CONSTANTS[x][y] with x = idx div 5 and
\* y = idx mod 5, the decomposition idx = 5x + y that Pi and the state layout
\* use.
C27_LaneIndexConvention ==
    rholane.pc # "idle" =>
        LET x == rholane.lane_idx \div 5
            y == rholane.lane_idx % 5
        IN  /\ pi_idx_next(x, y) = rholane.lane_idx
            /\ configure_rotation(rholane.lane_idx) = RotationConstant(x, y)

\* C28: in every witness that satisfies the absorb gate with flag = 1, the
\* capacity lanes 17..24 of out_state (the row after the next inputs) equal
\* those of in_state (the row before).
C28_AbsorbCapacityFrame ==
    (absorb.pc = "done" /\ absorb.ok /\ absorb.cur[ABSORB_NEXT_INPUTS] = 1) =>
        \A i \in Lanes \ RateLanes : absorb.next[i] = absorb.prev[i]

\* C29: with lanes stored at 5x + y, PiConfig::assign_region is Keccak's pi
\* step: the input lane at (x, y) is found, value and copy constraint, at
\* (y, (2x + 3y) mod 5) of the returned state for all x, y in 0..4, and lane
\* (0, 0) stays where it is.
C29_PiMatchesKeccak ==
    pi.pc = "done" =>
        /\ \A x \in 0..4, y \in 0..4 :
              LET out == pi.next_state[pi_idx_next(y, (2 * x + 3 * y) % 5) + 1]
              IN  /\ out.value = pi.state[pi_idx_next(x, y)]
                  /\ {out.cell, PiInCell(pi_idx_next(x, y))} \in pi.copies
        /\ pi.next_state[1].value = pi.state[0]
        /\ pi.sources[1] = 0

\* lanes 2i: lane (1, 0) = 10 is moved to (0, 2), lane (4, 3) = 46 to (3, 2)
C29_Witness ==
    /\ pi.pc = "done"
    /\ pi.state = [i \in Lanes |-> 2 * i]
    /\ pi.next_state[3].value = 10
    /\ pi.next_state[18].value = 46

=============================================================================
